---- MODULE Spec2Model ----
(***************************************************************************)
(* Model of the trademark MCP server (src/src/index.ts): five tools that   *)
(* proxy one lookup each to the USPTO TSDR API.                            *)
(*                                                                         *)
(* Texts are sequences of tokens (TLA+ strings); a key, a serial number    *)
(* and a registration number are sequences of one-character tokens, so     *)
(* that their length, a prefix of them and their occurrence in another     *)
(* text are computed and not assumed.  Non-ASCII glyphs of the source's    *)
(* string literals are left out of the tokens.                             *)
(***************************************************************************)
EXTENDS Integers, Sequences, FiniteSets, TLC

VARIABLES API_KEY, inv, proc, http

vars == <<API_KEY, inv, proc, http>>

----------------------------------------------------------------------------
(* Bounds of the model *)

\* longest serial / registration number that is tried
MaxIdLen == 9

\* longest API key that is tried
MaxKeyLen == 9

----------------------------------------------------------------------------
(* Text helpers (JavaScript string operations) *)

Min(a, b) == IF a < b THEN a ELSE b

\* String.prototype.includes
Includes(hay, needle) ==
    \E i \in 0..(Len(hay) - Len(needle)) :
        \A j \in 1..Len(needle) : hay[i + j] = needle[j]

\* String.prototype.substring(0, n)
Substring0(s, n) == SubSeq(s, 1, Min(n, Len(s)))

\* the string made of n copies of the character c
Repeat(c, n) == [i \in 1..n |-> c]

\* process.env values: undefined or a string
Undefined == [defined |-> FALSE, value |-> <<>>]
Str(s) == [defined |-> TRUE, value |-> s]

\* JavaScript truthiness of (string | undefined)
Truthy(v) == v.defined /\ v.value # <<>>

----------------------------------------------------------------------------
(* Constants of index.ts *)

TSDR_BASE_URL == "https://tsdrapi.uspto.gov/ts/cd"

TOOL_SERIAL == "trademark_search_by_serial"
TOOL_STATUS == "trademark_status"
TOOL_IMAGE == "trademark_image"
TOOL_DOCUMENTS == "trademark_documents"
TOOL_REGISTRATION == "trademark_search_by_registration"

Tools == {TOOL_SERIAL, TOOL_STATUS, TOOL_IMAGE, TOOL_DOCUMENTS, TOOL_REGISTRATION}
SerialTools == {TOOL_SERIAL, TOOL_STATUS, TOOL_IMAGE, TOOL_DOCUMENTS}
FormatTools == {TOOL_SERIAL, TOOL_REGISTRATION}
InfoTools == {TOOL_SERIAL, TOOL_REGISTRATION, TOOL_STATUS}

API_KEY_MARKER == "need to register for an API key"
SUPPORT_ADDRESS == "APIhelp@uspto.gov"

USER_AGENT == "trademark-mcp-server/1.0.0"

\* checkApiKey's message (one token)
CONFIG_ERROR == <<"USPTO API key not configured. Please set the USPTO_API_KEY environment variable with your API key from https://account.uspto.gov/api-manager/">>

----------------------------------------------------------------------------
(* Inputs *)

\* the n-th character of the configured key
KeyChar(i) == <<"a", "b", "c", "d">>[(i % 4) + 1]

\* the key of length n
KeyOf(n) == [i \in 1..n |-> KeyChar(i)]

\* values of process.env.USPTO_API_KEY when the module is loaded
Keys == {Undefined} \cup {Str(KeyOf(n)) : n \in 0..MaxKeyLen}

\* serial / registration numbers handed to the tools: digits or letters,
\* every length up to MaxIdLen
Ids == {Repeat(c, n) : c \in {"7", "X"}, n \in 0..MaxIdLen}

\* the optional format argument as the caller sends it (absent, or a string)
FormatInputs == {<<>>, <<"json">>, <<"xml">>, <<"yaml">>}

\* raw arguments of a call of the tool
RawArgs(tool) ==
    IF tool = TOOL_REGISTRATION
    THEN [registrationNumber : Ids, format : FormatInputs]
    ELSE IF tool = TOOL_SERIAL
    THEN [serialNumber : Ids, format : FormatInputs]
    ELSE [serialNumber : Ids, format : {<<>>}]

----------------------------------------------------------------------------
(* Parameter schemas (zod) *)

\* z.string().min(lo).max(hi)
StringMinMax(s, lo, hi) == Len(s) >= lo /\ Len(s) <= hi

\* z.enum(["json", "xml"]).default("json")
FormatIssue(f) == f # <<>> /\ f[1] \notin {"json", "xml"}
FormatValue(f) == IF f = <<>> THEN "json" ELSE f[1]

\* the identifier argument of a tool
IdField(tool) == IF tool = TOOL_REGISTRATION THEN "registrationNumber" ELSE "serialNumber"
IdOf(tool, args) == IF tool = TOOL_REGISTRATION THEN args.registrationNumber ELSE args.serialNumber

\* mutant of IdValid: the upper limit of the length is left out
IdValid_minOnly(tool, s) ==
    IF tool = TOOL_REGISTRATION THEN Len(s) >= 7 ELSE Len(s) >= 8

\* mutant of IdValid: the registration number is held to 8 characters too
IdValid_eight(tool, s) == StringMinMax(s, 8, 8)

\* the length constraint of the identifier of each tool
IdValid(tool, s) ==
    IF tool = TOOL_REGISTRATION THEN StringMinMax(s, 7, 8) ELSE StringMinMax(s, 8, 8)

\* the fields of the raw arguments that violate the tool's schema
Issues(tool, raw) ==
    (IF IdValid(tool, IdOf(tool, raw)) THEN {} ELSE {IdField(tool)})
    \cup (IF tool \in FormatTools /\ FormatIssue(raw.format) THEN {"format"} ELSE {})

\* the parsed arguments handed to execute
Parsed(tool, raw) ==
    IF tool = TOOL_REGISTRATION
    THEN [registrationNumber |-> raw.registrationNumber, format |-> FormatValue(raw.format)]
    ELSE IF tool = TOOL_SERIAL
    THEN [serialNumber |-> raw.serialNumber, format |-> FormatValue(raw.format)]
    ELSE [serialNumber |-> raw.serialNumber]

\* the failure reported for arguments that violate the schema
ValidationFailure(tool, issues) ==
    <<"Tool '", tool, "' parameter validation failed: ">>
    \o (IF "serialNumber" \in issues THEN <<"serialNumber">> ELSE <<>>)
    \o (IF "registrationNumber" \in issues THEN <<"registrationNumber">> ELSE <<>>)
    \o (IF "format" \in issues THEN <<"format">> ELSE <<>>)

----------------------------------------------------------------------------
(* Helpers of index.ts *)

\* mutant of getHeaders: the key header is set whether or not there is a key
getHeaders_always(key) ==
    {<<"User-Agent", <<USER_AGENT>>>>, <<"USPTO-API-KEY", key.value>>}

\* getHeaders(): the header map, as a set of <<name, value>> pairs
getHeaders(key) ==
    {<<"User-Agent", <<USER_AGENT>>>>}
    \cup (IF Truthy(key) THEN {<<"USPTO-API-KEY", key.value>>} ELSE {})

\* mutant of checkApiKey: only an undefined key counts as not configured
checkApiKey_undefinedOnly(key) == IF ~key.defined THEN CONFIG_ERROR ELSE <<>>

\* checkApiKey(): the message, or <<>> for null
checkApiKey(key) == IF ~Truthy(key) THEN CONFIG_ERROR ELSE <<>>

----------------------------------------------------------------------------
(* JSON: the value model, JSON.parse and JSON.stringify(value, null, 2).   *)
(* A JSON text is a sequence of lexemes and white-space tokens.            *)

\* a JSON value: its type t, and its number n, its string s or its items
JNull == [t |-> "null", n |-> 0, s |-> "", items |-> <<>>]
JBool(b) == [t |-> "bool", n |-> IF b THEN 1 ELSE 0, s |-> "", items |-> <<>>]
JNum(n) == [t |-> "num", n |-> n, s |-> "", items |-> <<>>]
JStr(str) == [t |-> "str", n |-> 0, s |-> str, items |-> <<>>]
JArr(elems) == [t |-> "arr", n |-> 0, s |-> "", items |-> elems]
\* members: a sequence of [k, val] in insertion order, keys distinct
JObj(members) == [t |-> "obj", n |-> 0, s |-> "", items |-> members]

\* latest reading of the clock that is tried
MaxClock == 2

\* new Date().toISOString() at clock reading t
IsoString(t) == "2026-01-01T00:00:0" \o ToString(t) \o ".000Z"

\* the strings of the JSON documents of server.ts
HttpWords ==
    {"healthy", "timestamp", "version", "1.0.0", "service", "trademark-mcp-server",
     "name", "description", "USPTO Trademark MCP Server", "endpoints", "health",
     "/health", "mcp", "/mcp", "error", "Not found", "Bad Gateway", "message",
     "Unable to connect to MCP server", "details", "fetch failed", "aborted",
     "terminated", "up"}
    \cup {IsoString(t) : t \in 0..(MaxClock + 1)}

\* number lexemes and the number each denotes
NumLexemes == {<<"0", 0>>, <<"1", 1>>, <<"1.0", 1>>, <<"2", 2>>, <<"2e0", 2>>,
               <<"645", 645>>, <<"12345678", 12345678>>}

\* string lexemes (with their quotes) and the string each denotes
StrLexemes == {<<"\"a\"", "a">>, <<"\"b\"", "b">>, <<"\"\\u0061\"", "a">>,
               <<"\"status\"", "status">>, <<"\"trademarks\"", "trademarks">>,
               <<"\"serialNumber\"", "serialNumber">>,
               <<"\"markElement\"", "markElement">>,
               <<"\"TEST MARK\"", "TEST MARK">>}
              \cup {<<"\"" \o w \o "\"", w>> : w \in HttpWords}

WhiteSpace == {" ", "  ", "\n", "\t"}

IsNumLexeme(tok) == \E p \in NumLexemes : p[1] = tok
NumValue(tok) == (CHOOSE p \in NumLexemes : p[1] = tok)[2]
IsStrLexeme(tok) == \E p \in StrLexemes : p[1] = tok
StrValue(tok) == (CHOOSE p \in StrLexemes : p[1] = tok)[2]

\* a string as JSON.stringify quotes it
Quote(str) == "\"" \o str \o "\""

\* result of a parsing step: the value and the position after it
ParseOk(value, next) == [ok |-> TRUE, value |-> value, next |-> next]
ParseFail == [ok |-> FALSE, value |-> JNull, next |-> 0]

RECURSIVE SkipWs(_, _)
SkipWs(toks, pos) ==
    IF pos <= Len(toks) /\ toks[pos] \in WhiteSpace THEN SkipWs(toks, pos + 1) ELSE pos

\* an object's members after the assignment obj[key] = value: a key
\* that is already present keeps its place and takes the new value
PutMember(members, key, value) ==
    IF \E i \in 1..Len(members) : members[i].k = key
    THEN [i \in 1..Len(members) |->
            IF members[i].k = key THEN [k |-> key, val |-> value] ELSE members[i]]
    ELSE Append(members, [k |-> key, val |-> value])

RECURSIVE ParseValue(_, _)
RECURSIVE ParseElements(_, _, _, _)
RECURSIVE ParseMembers(_, _, _, _)

ParseValue(toks, pos) ==
    LET p == SkipWs(toks, pos) IN
    IF p > Len(toks) THEN ParseFail
    ELSE LET tok == toks[p] IN
         IF tok = "{" THEN ParseMembers(toks, p + 1, <<>>, TRUE)
         ELSE IF tok = "[" THEN ParseElements(toks, p + 1, <<>>, TRUE)
         ELSE IF tok = "null" THEN ParseOk(JNull, p + 1)
         ELSE IF tok = "true" THEN ParseOk(JBool(TRUE), p + 1)
         ELSE IF tok = "false" THEN ParseOk(JBool(FALSE), p + 1)
         ELSE IF IsNumLexeme(tok) THEN ParseOk(JNum(NumValue(tok)), p + 1)
         ELSE IF IsStrLexeme(tok) THEN ParseOk(JStr(StrValue(tok)), p + 1)
         ELSE ParseFail

\* the elements of an array after "[" (first) or after a "," (not first)
ParseElements(toks, pos, acc, first) ==
    LET p == SkipWs(toks, pos) IN
    IF p > Len(toks) THEN ParseFail
    ELSE IF first /\ toks[p] = "]" THEN ParseOk(JArr(acc), p + 1)
    ELSE LET r == ParseValue(toks, p) IN
         IF ~r.ok THEN ParseFail
         ELSE LET q == SkipWs(toks, r.next) IN
              IF q > Len(toks) THEN ParseFail
              ELSE IF toks[q] = "," THEN ParseElements(toks, q + 1, Append(acc, r.value), FALSE)
              ELSE IF toks[q] = "]" THEN ParseOk(JArr(Append(acc, r.value)), q + 1)
              ELSE ParseFail

\* the members of an object after "{" (first) or after a "," (not first)
ParseMembers(toks, pos, acc, first) ==
    LET p == SkipWs(toks, pos) IN
    IF p > Len(toks) THEN ParseFail
    ELSE IF first /\ toks[p] = "}" THEN ParseOk(JObj(acc), p + 1)
    ELSE IF ~IsStrLexeme(toks[p]) THEN ParseFail
    ELSE LET c == SkipWs(toks, p + 1) IN
         IF c > Len(toks) \/ toks[c] # ":" THEN ParseFail
         ELSE LET r == ParseValue(toks, c + 1) IN
              IF ~r.ok THEN ParseFail
              ELSE LET q == SkipWs(toks, r.next)
                       members == PutMember(acc, StrValue(toks[p]), r.value) IN
                   IF q > Len(toks) THEN ParseFail
                   ELSE IF toks[q] = "," THEN ParseMembers(toks, q + 1, members, FALSE)
                   ELSE IF toks[q] = "}" THEN ParseOk(JObj(members), q + 1)
                   ELSE ParseFail

\* JSON.parse: one value, then nothing but white space
JSONParse(toks) ==
    LET r == ParseValue(toks, 1) IN
    IF r.ok /\ SkipWs(toks, r.next) = Len(toks) + 1 THEN r ELSE ParseFail

\* the indentation of nesting depth d with an indent of two spaces
Indent(d) == [i \in 1..d |-> "  "]

RECURSIVE Stringify(_, _)
RECURSIVE StringifyItems(_, _, _, _)

\* the lines of the elements / members from index i on, "," between them
StringifyItems(value, i, depth, isObj) ==
    IF i > Len(value.items) THEN <<>>
    ELSE Indent(depth)
         \o (IF isObj
             THEN <<Quote(value.items[i].k), ":", " ">>
                  \o Stringify(value.items[i].val, depth)
             ELSE Stringify(value.items[i], depth))
         \o (IF i < Len(value.items) THEN <<",">> ELSE <<>>)
         \o <<"\n">>
         \o StringifyItems(value, i + 1, depth, isObj)

\* JSON.stringify(value, null, 2) of a value at nesting depth `depth`
Stringify(value, depth) ==
    IF value.t = "null" THEN <<"null">>
    ELSE IF value.t = "bool" THEN <<IF value.n = 1 THEN "true" ELSE "false">>
    ELSE IF value.t = "num" THEN <<ToString(value.n)>>
    ELSE IF value.t = "str" THEN <<Quote(value.s)>>
    ELSE IF value.t = "arr"
    THEN IF value.items = <<>> THEN <<"[", "]">>
         ELSE <<"[", "\n">> \o StringifyItems(value, 1, depth + 1, FALSE)
              \o Indent(depth) \o <<"]">>
    ELSE IF value.items = <<>> THEN <<"{", "}">>
         ELSE <<"{", "\n">> \o StringifyItems(value, 1, depth + 1, TRUE)
              \o Indent(depth) \o <<"}">>

JSONStringify(value) == Stringify(value, 0)

RECURSIVE StringifyCompact(_)
RECURSIVE CompactItems(_, _, _)

\* the elements / members from index i on, "," between them
CompactItems(value, i, isObj) ==
    IF i > Len(value.items) THEN <<>>
    ELSE (IF isObj
          THEN <<Quote(value.items[i].k), ":">> \o StringifyCompact(value.items[i].val)
          ELSE StringifyCompact(value.items[i]))
         \o (IF i < Len(value.items) THEN <<",">> ELSE <<>>)
         \o CompactItems(value, i + 1, isObj)

\* JSON.stringify(value)
StringifyCompact(value) ==
    IF value.t = "null" THEN <<"null">>
    ELSE IF value.t = "bool" THEN <<IF value.n = 1 THEN "true" ELSE "false">>
    ELSE IF value.t = "num" THEN <<ToString(value.n)>>
    ELSE IF value.t = "str" THEN <<Quote(value.s)>>
    ELSE IF value.t = "arr" THEN <<"[">> \o CompactItems(value, 1, FALSE) \o <<"]">>
    ELSE <<"{">> \o CompactItems(value, 1, TRUE) \o <<"}">>

\* an object literal whose values are strings: pairs is a sequence of <<key, string>>
ObjectOfStrings(pairs) ==
    JObj([i \in 1..Len(pairs) |-> [k |-> pairs[i][1], val |-> JStr(pairs[i][2])]])

\* the member of an object under a key, JNull when there is none
Member(obj, key) ==
    IF \E i \in 1..Len(obj.items) : obj.items[i].k = key
    THEN obj.items[CHOOSE i \in 1..Len(obj.items) : obj.items[i].k = key].val
    ELSE JNull

\* the keys of an object
KeysOf(obj) == {obj.items[i].k : i \in 1..Len(obj.items)}

----------------------------------------------------------------------------
(* The upstream API as the handlers see it: outcomes of fetch and of       *)
(* reading a response body.                                                *)

\* JSON documents the upstream may serve
JsonBodies ==
    { <<"{", "\"trademarks\"", ":", "[", "{", "\"status\"", ":", "{",
        "\"serialNumber\"", ":", "12345678", ",",
        "\"markElement\"", ":", "\"TEST MARK\"", ",",
        "\"status\"", ":", "645", "}", "}", "]", "}">>,
      <<"{", "\"a\"", ":", "1.0", ",", " ", "\"\\u0061\"", ":", "2e0", ",",
        "\"b\"", ":", "[", "]", "}", "\n">>,
      <<"[", "1", ",", "\"\\u0061\"", ",", "null", ",", "true", ",", "{", "}", "]">>,
      <<"0">> }

\* bodies that are not JSON
MalformedBodies ==
    { <<"{", "\"a\"", ":", "1", ",", "}">>,
      <<"{", "\"a\"", ":">>,
      <<"1", "2">>,
      <<>> }

\* HTML and XML documents
MarkupBodies ==
    { <<"<html>", "<title>", "TEST MARK", " - Status", "</title>", "</html>">>,
      <<"<HTML>", "<TITLE>", "TEST MARK", "</TITLE>", "</HTML>">>,
      <<"<html>", "<title>", "\n", "TEST MARK", "</title>", "</html>">>,
      <<"<?xml version=\"1.0\"?>", "\n", "<TrademarkTransaction>", "\n", "  ",
        "<MarkElement>", "TEST MARK", "</MarkElement>", "\n",
        "</TrademarkTransaction>">> }

\* bodies of error responses
ErrorBodies ==
    { <<"You ", API_KEY_MARKER, " at developer.uspto.gov">>,
      <<"You ", "Need To Register For An API Key">>,
      <<"Not Found">> }

Bodies == JsonBodies \cup MalformedBodies \cup MarkupBodies \cup ErrorBodies

\* status lines the upstream may answer with
StatusLines ==
    { [status |-> 200, statusText |-> "OK"],
      [status |-> 299, statusText |-> ""],
      [status |-> 304, statusText |-> "Not Modified"],
      [status |-> 401, statusText |-> "Unauthorized"],
      [status |-> 404, statusText |-> "Not Found"],
      [status |-> 500, statusText |-> "Internal Server Error"] }

NoResponse == [status |-> 0, statusText |-> ""]

\* messages of the exceptions fetch() and the body readers reject with
NetworkErrors == {<<"fetch failed">>, <<"Network error">>}
BodyErrors == {<<"terminated">>}

\* how a fetch settles: rejected, or resolved with a response
FetchOutcomes ==
    [kind : {"reject"}, message : NetworkErrors, response : {NoResponse}]
    \cup [kind : {"response"}, message : {<<>>}, response : StatusLines]

\* how reading the body settles: rejected, or resolved with the text
BodyOutcomes ==
    [kind : {"reject"}, message : BodyErrors, text : {<<>>}]
    \cup [kind : {"text"}, message : {<<>>}, text : Bodies]

\* mutant of Ok: every status below 400 counts as success
Ok_below400(response) == response.status >= 200 /\ response.status < 400

\* Response.ok
Ok(response) == response.status >= 200 /\ response.status <= 299

\* message of the SyntaxError thrown by response.json() for a malformed body
JSON_SYNTAX_ERROR == <<"Unexpected token in JSON">>

----------------------------------------------------------------------------
(* The tools' execute handlers *)

\* how a stretch of a handler's try block ends: it returns a text, throws
\* an error with a message, or waits for the body of the response
Return(text) == [kind |-> "return", text |-> text]
Throw(message) == [kind |-> "throw", text |-> message]
Await(what) == [kind |-> what, text |-> <<>>]

\* mutant of UrlOf: the data is always asked for as JSON
UrlOf_alwaysJson(tool, args) ==
    IF tool = TOOL_SERIAL
    THEN <<TSDR_BASE_URL, "/casestatus/sn">> \o args.serialNumber \o <<"/info.", "json">>
    ELSE IF tool = TOOL_REGISTRATION
    THEN <<TSDR_BASE_URL, "/casestatus/rn">> \o args.registrationNumber \o <<"/info.", "json">>
    ELSE IF tool = TOOL_STATUS
    THEN <<TSDR_BASE_URL, "/casestatus/sn">> \o args.serialNumber \o <<"/content">>
    ELSE IF tool = TOOL_IMAGE
    THEN <<TSDR_BASE_URL, "/rawImage/">> \o args.serialNumber
    ELSE <<TSDR_BASE_URL, "/casedocs/bundle.pdf?sn=">> \o args.serialNumber

\* mutant of UrlOf: the image path takes the "sn" prefix of the status paths
UrlOf_snImage(tool, args) ==
    IF tool = TOOL_SERIAL
    THEN <<TSDR_BASE_URL, "/casestatus/sn">> \o args.serialNumber
         \o <<"/info.", IF args.format = "json" THEN "json" ELSE "xml">>
    ELSE IF tool = TOOL_REGISTRATION
    THEN <<TSDR_BASE_URL, "/casestatus/rn">> \o args.registrationNumber
         \o <<"/info.", IF args.format = "json" THEN "json" ELSE "xml">>
    ELSE IF tool = TOOL_STATUS
    THEN <<TSDR_BASE_URL, "/casestatus/sn">> \o args.serialNumber \o <<"/content">>
    ELSE IF tool = TOOL_IMAGE
    THEN <<TSDR_BASE_URL, "/rawImage/sn">> \o args.serialNumber
    ELSE <<TSDR_BASE_URL, "/casedocs/bundle.pdf?sn=">> \o args.serialNumber

\* the url a tool builds from its arguments
UrlOf(tool, args) ==
    IF tool = TOOL_SERIAL
    THEN <<TSDR_BASE_URL, "/casestatus/sn">> \o args.serialNumber
         \o <<"/info.", IF args.format = "json" THEN "json" ELSE "xml">>
    ELSE IF tool = TOOL_REGISTRATION
    THEN <<TSDR_BASE_URL, "/casestatus/rn">> \o args.registrationNumber
         \o <<"/info.", IF args.format = "json" THEN "json" ELSE "xml">>
    ELSE IF tool = TOOL_STATUS
    THEN <<TSDR_BASE_URL, "/casestatus/sn">> \o args.serialNumber \o <<"/content">>
    ELSE IF tool = TOOL_IMAGE
    THEN <<TSDR_BASE_URL, "/rawImage/">> \o args.serialNumber
    ELSE <<TSDR_BASE_URL, "/casedocs/bundle.pdf?sn=">> \o args.serialNumber

\* the request a tool hands to fetch
NoRequest == [method |-> "", url |-> <<>>, headers |-> {}]
RequestOf(tool, args, key) ==
    [method |-> IF tool = TOOL_IMAGE THEN "HEAD" ELSE "GET",
     url |-> UrlOf(tool, args),
     headers |-> getHeaders(key)]

\* mutant of KeyShown: four characters of the key are shown
KeyShown_four(key) ==
    IF Truthy(key) THEN Substring0(key.value, 4) \o <<"...">> ELSE <<"Not set">>

\* the key as the authentication message shows it
KeyShown(key) ==
    IF Truthy(key) THEN Substring0(key.value, 8) \o <<"...">> ELSE <<"Not set">>

\* message of the Error thrown for a response that carries the API-key marker
AuthenticationIssue(key) ==
    <<"USPTO API Authentication Issue\n\nThe USPTO TSDR API is rejecting our API key. This could be due to:\n\n1. **API Key Activation Delay**: New keys may need 24-48 hours to activate\n2. **Endpoint Restrictions**: Individual record endpoints may be temporarily disabled\n3. **Authentication Method**: The API might require a different authentication format\n\n",
      "**Your API Key**: ">>
    \o KeyShown(key)
    \o <<"\n\n**Next Steps**:\n- Contact USPTO support: ", SUPPORT_ADDRESS,
         " \n- Include your API key and this error message\n- Ask specifically about individual record endpoint access\n\n**Alternative**: Try bulk data download endpoints if available.">>

\* message of the Error thrown for any other response that is not ok
GenericError(response, errorText) ==
    <<"USPTO API returned ", ToString(response.status), ": ", response.statusText,
      ". Error: ">> \o errorText

\* htmlContent.match(/<title>(.*?)<\/title>/i): the tags match in any
\* case, and "." matches no line terminator
IsOpenTitle(tok) == tok \in {"<title>", "<TITLE>"}
IsCloseTitle(tok) == tok \in {"</title>", "</TITLE>"}
TitleSpan(html, i, j) ==
    /\ i < j
    /\ IsOpenTitle(html[i])
    /\ IsCloseTitle(html[j])
    /\ \A k \in (i + 1)..(j - 1) : html[k] # "\n"
TitleMatches(html) == \E i, j \in 1..Len(html) : TitleSpan(html, i, j)
TitleOf(html) ==
    LET i == CHOOSE a \in 1..Len(html) :
                 /\ \E b \in 1..Len(html) : TitleSpan(html, a, b)
                 /\ \A c \in 1..(a - 1) : ~\E b \in 1..Len(html) : TitleSpan(html, c, b)
        j == CHOOSE b \in 1..Len(html) :
                 /\ TitleSpan(html, i, b)
                 /\ \A c \in 1..(b - 1) : ~TitleSpan(html, i, c)
    IN  SubSeq(html, i + 1, j - 1)

\* the results of the tools
StatusReport(args, htmlContent) ==
    <<"Trademark Status Report for Serial Number: ">> \o args.serialNumber
    \o <<"\n\nTitle: ">>
    \o (IF TitleMatches(htmlContent) THEN TitleOf(htmlContent) ELSE <<"No title found">>)
    \o <<"\n\nFull HTML content available at: ">> \o UrlOf(TOOL_STATUS, args)
    \o <<"\n\nNote: This tool returns the HTML content from the USPTO. For structured data, use trademark_search_by_serial instead.">>

NoImageFound(args) ==
    <<"No image found for trademark serial number: ">> \o args.serialNumber

ImageResult(args) ==
    <<"Trademark image URL for serial number ">> \o args.serialNumber \o <<": ">>
    \o UrlOf(TOOL_IMAGE, args)
    \o <<"\n\nYou can view this image by opening the URL in a web browser.">>

DocumentsResult(args) ==
    <<"Document bundle URL for trademark serial number ">> \o args.serialNumber
    \o <<": ">> \o UrlOf(TOOL_DOCUMENTS, args)
    \o <<"\n\nThis URL provides a PDF containing all documents related to this trademark application.\n\nNote: Document downloads are rate-limited to 4 requests per minute per API key.">>

\* the text each tool's catch block puts before the error's message
ErrorPrefix(tool) ==
    IF tool = TOOL_SERIAL THEN "Error fetching trademark data: "
    ELSE IF tool = TOOL_STATUS THEN "Error fetching trademark status: "
    ELSE IF tool = TOOL_IMAGE THEN "Error retrieving trademark image: "
    ELSE IF tool = TOOL_DOCUMENTS THEN "Error generating document bundle URL: "
    ELSE "Error fetching trademark data by registration number: "

\* mutant of Catch: the error is thrown on to the caller
Catch_rethrow(tool, completion) == completion

\* the catch block: an error thrown in the try block becomes the result
Catch(tool, completion) ==
    IF completion.kind = "throw"
    THEN Return(<<ErrorPrefix(tool)>> \o completion.text)
    ELSE completion

\* mutant of AfterFetch: trademark_image handles a response that is not ok
\* the way the other tools do
AfterFetch_imageReadsBody(tool, args, outcome) ==
    IF outcome.kind = "reject" THEN Throw(outcome.message)
    ELSE IF ~Ok(outcome.response) THEN Await("errorText")
    ELSE IF tool = TOOL_IMAGE THEN Return(ImageResult(args))
    ELSE IF tool \in FormatTools /\ args.format = "json" THEN Await("json")
    ELSE Await("text")

\* the try block once fetch has settled
AfterFetch(tool, args, outcome) ==
    IF outcome.kind = "reject" THEN Throw(outcome.message)
    ELSE IF tool = TOOL_IMAGE
    THEN IF ~Ok(outcome.response) THEN Return(NoImageFound(args))
         ELSE Return(ImageResult(args))
    ELSE IF ~Ok(outcome.response) THEN Await("errorText")
    ELSE IF tool \in FormatTools /\ args.format = "json" THEN Await("json")
    ELSE Await("text")

\* the try block once the body of a response that is not ok has been read
AfterErrorText(key, response, body) ==
    IF body.kind = "reject" THEN Throw(body.message)
    ELSE IF Includes(body.text, <<API_KEY_MARKER>>) THEN Throw(AuthenticationIssue(key))
    ELSE Throw(GenericError(response, body.text))

\* mutant of AfterJson: the text of the body is returned as it came
AfterJson_raw(body) ==
    IF body.kind = "reject" THEN Throw(body.message)
    ELSE IF ~JSONParse(body.text).ok THEN Throw(JSON_SYNTAX_ERROR)
    ELSE Return(body.text)

\* the try block once response.json() has settled
AfterJson(body) ==
    IF body.kind = "reject" THEN Throw(body.message)
    ELSE IF ~JSONParse(body.text).ok THEN Throw(JSON_SYNTAX_ERROR)
    ELSE Return(JSONStringify(JSONParse(body.text).value))

\* mutant of AfterText: the white space of the document is dropped
AfterText_compact(tool, args, body) ==
    IF body.kind = "reject" THEN Throw(body.message)
    ELSE IF tool = TOOL_STATUS THEN Return(StatusReport(args, body.text))
    ELSE Return(SelectSeq(body.text, LAMBDA tok : tok \notin WhiteSpace))

\* the try block once response.text() of an ok response has settled
AfterText(tool, args, body) ==
    IF body.kind = "reject" THEN Throw(body.message)
    ELSE IF tool = TOOL_STATUS THEN Return(StatusReport(args, body.text))
    ELSE Return(body.text)

----------------------------------------------------------------------------
(* State: the key read when the module is loaded, the tool invocations     *)
(* with the position of each in its handler, the process of the entry      *)
(* point, and the HTTP transport of server.ts.                             *)

\* the process: running, or exited with a code; the lines written to stderr
\* the process: whether it runs, its exit code, what it wrote to stderr,
\* and the value of process.env.USPTO_API_KEY
Running == [state |-> "running", exitCode |-> 0, stderr |-> <<>>, env |-> Undefined]

\* the process as it starts with USPTO_API_KEY set to `value`
Started(value) == [Running EXCEPT !.env = value]

\* mutant of OnSignal: the process exits with code 1
OnSignal_exitOne(p, signal) ==
    [p EXCEPT !.stderr = Append(@, "Received " \o signal \o ", shutting down gracefully..."),
              !.state = "exited", !.exitCode = 1]

\* bin.ts, the handlers of SIGINT and SIGTERM: console.error, process.exit(0)
OnSignal(p, signal) ==
    [p EXCEPT !.stderr = Append(@, "Received " \o signal \o ", shutting down gracefully..."),
              !.state = "exited", !.exitCode = 0]

----------------------------------------------------------------------------
(* The HTTP transport, server.ts *)

\* const port (PORT is not set)
port == 3000

\* header names as node's http module and fetch's Headers compare them
LowerName(name) ==
    IF name = "Access-Control-Allow-Origin" THEN "access-control-allow-origin"
    ELSE IF name = "Access-Control-Allow-Methods" THEN "access-control-allow-methods"
    ELSE IF name = "Access-Control-Allow-Headers" THEN "access-control-allow-headers"
    ELSE IF name = "Content-Type" THEN "content-type"
    ELSE IF name = "Host" THEN "host"
    ELSE IF name = "Connection" THEN "connection"
    ELSE IF name = "Accept" THEN "accept"
    ELSE name

\* a ServerResponse: its headers, the status of its head (0: not written),
\* the number of heads written, the chunks of its body, the number of
\* times it was ended, and whether a call on it threw
NewResponse ==
    [headers |-> {}, status |-> 0, headWrites |-> 0, chunks |-> <<>>, ended |-> 0,
     threw |-> FALSE]

\* res.setHeader(name, value): replaces the value the header had
setHeader(res, name, value) ==
    [res EXCEPT !.headers =
        {h \in @ : h[1] # LowerName(name)} \cup {<<LowerName(name), value>>}]

RECURSIVE setHeaders(_, _)
\* headers.forEach((value, key) => res.setHeader(key, value))
setHeaders(res, headers) ==
    IF headers = {} THEN res
    ELSE LET h == CHOOSE x \in headers : TRUE IN
         setHeaders(setHeader(res, h[1], h[2]), headers \ {h})

\* res.writeHead(status, headers): throws once the head has been written
writeHead(res, status, headers) ==
    IF res.status # 0 THEN [res EXCEPT !.threw = TRUE]
    ELSE [setHeaders(res, headers) EXCEPT !.status = status, !.headWrites = @ + 1]

\* res.write(chunk)
write(res, chunk) == [res EXCEPT !.chunks = Append(@, chunk)]

\* res.end(), with `chunks` the sequence of the chunks given (none or one)
end(res, chunks) == [res EXCEPT !.chunks = @ \o chunks, !.ended = @ + 1]

JSON_CONTENT_TYPE == {<<"Content-Type", "application/json">>}

\* the three CORS headers set at the start of the handler
SetCors(res) ==
    setHeader(setHeader(setHeader(res,
        "Access-Control-Allow-Origin", "*"),
        "Access-Control-Allow-Methods", "GET, POST, OPTIONS"),
        "Access-Control-Allow-Headers", "Content-Type, Authorization")

\* mutant of HealthDocument: the document of another health check
HealthDocument_up(clock) ==
    StringifyCompact(ObjectOfStrings(<<
        <<"status", "up">>, <<"timestamp", IsoString(clock)>>,
        <<"version", "1.0.0">> >>))

\* the documents the handler answers with
HealthDocument(clock) ==
    StringifyCompact(ObjectOfStrings(<<
        <<"status", "healthy">>, <<"timestamp", IsoString(clock)>>,
        <<"version", "1.0.0">>, <<"service", "trademark-mcp-server">> >>))

RootDocument ==
    StringifyCompact(JObj(<<
        [k |-> "name", val |-> JStr("trademark-mcp-server")],
        [k |-> "version", val |-> JStr("1.0.0")],
        [k |-> "description", val |-> JStr("USPTO Trademark MCP Server")],
        [k |-> "endpoints",
         val |-> ObjectOfStrings(<< <<"health", "/health">>, <<"mcp", "/mcp">> >>)] >>))

NotFoundDocument == StringifyCompact(ObjectOfStrings(<< <<"error", "Not found">> >>))

BadGatewayDocument(details) ==
    StringifyCompact(ObjectOfStrings(<<
        <<"error", "Bad Gateway">>, <<"message", "Unable to connect to MCP server">>,
        <<"details", details>> >>))

\* requests of the clients: method, path and query string of req.url
HttpMethods == {"GET", "HEAD", "POST", "OPTIONS", "DELETE"}
HttpPaths == {"/health", "/", "/mcp", "/healthz", "/mcp/x"}
HttpQueries == {"", "?probe=1"}
RequestHeaders ==
    {<<"host", "localhost:3000">>, <<"connection", "keep-alive">>,
     <<"accept", "application/json, text/event-stream">>}
RequestBodies == {<<>>, <<"{\"jsonrpc\":\"2.0\",\"method\":\"tools/list\"}">>}

\* how getRequestBody settles
RequestBodyOutcomes ==
    [kind : {"text"}, message : {""}, text : RequestBodies]
    \cup [kind : {"reject"}, message : {"aborted"}, text : {<<>>}]

\* answers of the internal MCP server: status, headers, and the chunks of
\* the body (hasBody is FALSE for a response whose body is null)
McpResponses ==
    [status : {200, 202, 404},
     headers : {{<<"content-type", "text/event-stream">>},
                {<<"content-type", "application/json">>,
                 <<"access-control-allow-origin", "https://app.example">>}},
     hasBody : BOOLEAN,
     stream : {<<>>, <<<<"c1">>>>, <<<<"c1">>, <<"c2">>>>}]

NoMcpResponse == [status |-> 0, headers |-> {}, hasBody |-> FALSE, stream |-> <<>>]

\* how the fetch to the internal MCP server settles
ProxyOutcomes ==
    [kind : {"reject"}, message : {"fetch failed"}, response : {NoMcpResponse}]
    \cup [kind : {"response"}, message : {""},
           response : {m \in McpResponses : m.hasBody \/ m.stream = <<>>}]

\* how reader.read() settles: a chunk, the end of the stream, or an error
ReadOutcomes == {"chunk", "done", "reject"}

\* the request handed to fetch for the internal MCP server
NoForward == [method |-> "", url |-> <<>>, headers |-> {}, hasBody |-> FALSE, body |-> <<>>]
\* mutant of Forward: the query string is not forwarded
Forward_noQuery(method, path, query, headers, hasBody, body) ==
    [method |-> method,
     url |-> <<"http://localhost:", ToString(port + 1), path, "">>,
     headers |-> {h \in headers : h[1] \notin {"host", "connection"}},
     hasBody |-> hasBody,
     body |-> body]

Forward(method, path, query, headers, hasBody, body) ==
    [method |-> method,
     url |-> <<"http://localhost:", ToString(port + 1), path, query>>,
     headers |-> {h \in headers : h[1] \notin {"host", "connection"}},
     hasBody |-> hasBody,
     body |-> body]

\* a request being handled: the position of the handler, the request, the
\* response, the request body once it is read, what was forwarded, what the
\* internal server answered, the chunks of its body not yet read, and
\* whether the handler's promise was rejected
NoRequestHandled ==
    [pc |-> "idle", method |-> "", path |-> "", query |-> "", res |-> NewResponse,
     body |-> <<>>, forward |-> NoForward, mcp |-> NoMcpResponse, stream |-> <<>>,
     rejected |-> FALSE]

\* the health option given to the FastMCP constructor when index.ts is
\* loaded at time `clock`: its message is built there, once
FastMCPHealth(clock) ==
    [enabled |-> TRUE, message |-> HealthDocument(clock), path |-> "/health", status |-> 200]

\* a response of the internal MCP server's health endpoint
NoHealthResponse == [status |-> 0, body |-> <<>>]

\* the transport: whether the internal MCP server listens and on which port,
\* the clock, the health option of the FastMCP server, the last response of
\* its health endpoint, the body of the last health response the handler of
\* server.ts gave before the request being handled, and that request
NoHttp ==
    [mcpUp |-> FALSE, mcpPort |-> 0, clock |-> 0, health |-> FastMCPHealth(0),
     mcpHealth |-> NoHealthResponse, lastHealth |-> <<>>, req |-> NoRequestHandled]

\* mutant of BadGateway: the error is logged and the response is left open
BadGateway_logOnly(r, message) == [r EXCEPT !.pc = "done"]

\* the catch block of the /mcp branch
BadGateway(r, message) ==
    LET res1 == writeHead(r.res, 502, JSON_CONTENT_TYPE) IN
    IF res1.threw
    THEN [r EXCEPT !.pc = "done", !.res = res1, !.rejected = TRUE]
    ELSE [r EXCEPT !.pc = "done", !.res = end(res1, <<BadGatewayDocument(message)>>)]

\* the /mcp branch from the call of fetch on
StartProxy(r, hasBody, body) ==
    [r EXCEPT !.pc = "proxyFetch",
              !.forward = Forward(r.method, r.path, r.query, RequestHeaders, hasBody, body)]

\* mutant of HandleRequest: the path is looked at before the method
HandleRequest_routeFirst(method, path, query, clock) ==
    LET r == [NoRequestHandled EXCEPT !.method = method, !.path = path, !.query = query,
                                      !.res = SetCors(NewResponse)] IN
    IF path = "/health"
    THEN [r EXCEPT !.pc = "done",
                   !.res = end(writeHead(r.res, 200, JSON_CONTENT_TYPE),
                               <<HealthDocument(clock)>>)]
    ELSE IF path = "/"
    THEN [r EXCEPT !.pc = "done",
                   !.res = end(writeHead(r.res, 200, JSON_CONTENT_TYPE), <<RootDocument>>)]
    ELSE IF path = "/mcp"
    THEN IF method # "GET" /\ method # "HEAD"
         THEN [r EXCEPT !.pc = "readBody"]
         ELSE StartProxy(r, FALSE, <<>>)
    ELSE IF method = "OPTIONS"
    THEN [r EXCEPT !.pc = "done", !.res = end(writeHead(r.res, 200, {}), <<>>)]
    ELSE [r EXCEPT !.pc = "done",
                   !.res = end(writeHead(r.res, 404, JSON_CONTENT_TYPE), <<NotFoundDocument>>)]

\* mutant of HandleRequest: every path below /mcp is proxied
HandleRequest_mcpPrefix(method, path, query, clock) ==
    LET r == [NoRequestHandled EXCEPT !.method = method, !.path = path, !.query = query,
                                      !.res = SetCors(NewResponse)] IN
    IF method = "OPTIONS"
    THEN [r EXCEPT !.pc = "done", !.res = end(writeHead(r.res, 200, {}), <<>>)]
    ELSE IF path = "/health"
    THEN [r EXCEPT !.pc = "done",
                   !.res = end(writeHead(r.res, 200, JSON_CONTENT_TYPE),
                               <<HealthDocument(clock)>>)]
    ELSE IF path = "/"
    THEN [r EXCEPT !.pc = "done",
                   !.res = end(writeHead(r.res, 200, JSON_CONTENT_TYPE), <<RootDocument>>)]
    ELSE IF path \in {"/mcp", "/mcp/x"}
    THEN IF method # "GET" /\ method # "HEAD"
         THEN [r EXCEPT !.pc = "readBody"]
         ELSE StartProxy(r, FALSE, <<>>)
    ELSE [r EXCEPT !.pc = "done",
                   !.res = end(writeHead(r.res, 404, JSON_CONTENT_TYPE), <<NotFoundDocument>>)]

\* the request handler up to its first await
HandleRequest(method, path, query, clock) ==
    LET r == [NoRequestHandled EXCEPT !.method = method, !.path = path, !.query = query,
                                      !.res = SetCors(NewResponse)] IN
    IF method = "OPTIONS"
    THEN [r EXCEPT !.pc = "done", !.res = end(writeHead(r.res, 200, {}), <<>>)]
    ELSE IF path = "/health"
    THEN [r EXCEPT !.pc = "done",
                   !.res = end(writeHead(r.res, 200, JSON_CONTENT_TYPE),
                               <<HealthDocument(clock)>>)]
    ELSE IF path = "/"
    THEN [r EXCEPT !.pc = "done",
                   !.res = end(writeHead(r.res, 200, JSON_CONTENT_TYPE), <<RootDocument>>)]
    ELSE IF path = "/mcp"
    THEN IF method # "GET" /\ method # "HEAD"
         THEN [r EXCEPT !.pc = "readBody"]
         ELSE StartProxy(r, FALSE, <<>>)
    ELSE [r EXCEPT !.pc = "done",
                   !.res = end(writeHead(r.res, 404, JSON_CONTENT_TYPE), <<NotFoundDocument>>)]

\* the handler once getRequestBody has settled
AfterRequestBody(r, outcome) ==
    IF outcome.kind = "reject" THEN BadGateway(r, outcome.message)
    ELSE StartProxy([r EXCEPT !.body = outcome.text], TRUE, outcome.text)

\* the handler once the fetch to the internal MCP server has settled
AfterProxyFetch(r, outcome) ==
    IF outcome.kind = "reject" THEN BadGateway(r, outcome.message)
    ELSE LET m == outcome.response
             res1 == writeHead(setHeaders(r.res, m.headers), m.status, {}) IN
         IF m.hasBody
         THEN [r EXCEPT !.pc = "pump", !.res = res1, !.mcp = m, !.stream = m.stream]
         ELSE [r EXCEPT !.pc = "done", !.res = end(res1, <<>>), !.mcp = m]

\* pump(), once reader.read() has settled
AfterRead(r, outcome) ==
    IF outcome = "reject" THEN BadGateway(r, "terminated")
    ELSE IF outcome = "done" THEN [r EXCEPT !.pc = "done", !.res = end(r.res, <<>>)]
    ELSE [r EXCEPT !.res = write(r.res, Head(r.stream)), !.stream = Tail(r.stream)]

NoFetch == [kind |-> "none", message |-> <<>>, response |-> NoResponse]
NoBody == [kind |-> "none", message |-> <<>>, text |-> <<>>]

\* an invocation slot that holds no call
Idle ==
    [pc |-> "idle", tool |-> "", raw |-> [serialNumber |-> <<>>, format |-> <<>>],
     args |-> [serialNumber |-> <<>>], request |-> NoRequest, fetches |-> 0,
     bodyReads |-> 0, fetched |-> NoFetch, body |-> NoBody,
     outcome |-> "none", result |-> <<>>]

\* the positions at which a handler waits for the body of the response
BodyWaits == {"errorText", "json", "text"}

\* the invocation c after a stretch of its handler ended with `completion`
Continue(c, completion) ==
    IF completion.kind = "return"
    THEN [c EXCEPT !.pc = "done", !.outcome = "returned", !.result = completion.text]
    ELSE IF completion.kind = "throw"
    THEN [c EXCEPT !.pc = "done", !.outcome = "threw", !.result = completion.text]
    ELSE [c EXCEPT !.pc = completion.kind, !.bodyReads = @ + 1]

\* mutant of Execute: trademark_image does not check the key
Execute_imageNoKeyCheck(c, key) ==
    IF c.tool # TOOL_IMAGE /\ checkApiKey(key) # <<>>
    THEN Continue(c, Return(checkApiKey(key)))
    ELSE IF c.tool = TOOL_DOCUMENTS
    THEN Continue(c, Catch(c.tool, Return(DocumentsResult(c.args))))
    ELSE [c EXCEPT !.pc = "fetch", !.fetches = @ + 1,
                   !.request = RequestOf(c.tool, c.args, key)]

\* mutant of Execute: trademark_documents probes its url like trademark_image
Execute_documentsProbe(c, key) ==
    IF checkApiKey(key) # <<>>
    THEN Continue(c, Return(checkApiKey(key)))
    ELSE [c EXCEPT !.pc = "fetch", !.fetches = @ + 1,
                   !.request = RequestOf(c.tool, c.args, key)]

\* execute(args) up to its first await
Execute(c, key) ==
    IF checkApiKey(key) # <<>>
    THEN Continue(c, Return(checkApiKey(key)))
    ELSE IF c.tool = TOOL_DOCUMENTS
    THEN Continue(c, Catch(c.tool, Return(DocumentsResult(c.args))))
    ELSE [c EXCEPT !.pc = "fetch", !.fetches = @ + 1,
                   !.request = RequestOf(c.tool, c.args, key)]

\* mutant of Dispatch: the key is checked before the arguments
Dispatch_keyFirst(tool, raw, key) ==
    IF checkApiKey(key) # <<>>
    THEN [Idle EXCEPT !.pc = "done", !.tool = tool, !.raw = raw,
                      !.outcome = "returned", !.result = checkApiKey(key)]
    ELSE IF Issues(tool, raw) # {}
    THEN [Idle EXCEPT !.pc = "done", !.tool = tool, !.raw = raw,
                      !.outcome = "validation",
                      !.result = ValidationFailure(tool, Issues(tool, raw))]
    ELSE Execute([Idle EXCEPT !.tool = tool, !.raw = raw, !.args = Parsed(tool, raw)], key)

\* the server's handling of a tools/call request: the arguments are checked
\* against the tool's parameters, then execute runs
Dispatch(tool, raw, key) ==
    IF Issues(tool, raw) # {}
    THEN [Idle EXCEPT !.pc = "done", !.tool = tool, !.raw = raw,
                      !.outcome = "validation",
                      !.result = ValidationFailure(tool, Issues(tool, raw))]
    ELSE Execute([Idle EXCEPT !.tool = tool, !.raw = raw, !.args = Parsed(tool, raw)], key)

\* mutant of ResumeFetch: a rejected fetch is tried once more
ResumeFetch_retry(c, key, outcome) ==
    IF outcome.kind = "reject" /\ c.fetches < 2
    THEN [c EXCEPT !.fetches = @ + 1]
    ELSE Continue([c EXCEPT !.fetched = outcome],
                  Catch(c.tool, AfterFetch(c.tool, c.args, outcome)))

\* the handler once its fetch has settled
ResumeFetch(c, key, outcome) ==
    Continue([c EXCEPT !.fetched = outcome], Catch(c.tool, AfterFetch(c.tool, c.args, outcome)))

\* the handler once the read of the body has settled
ResumeBody(c, key, body) ==
    Continue([c EXCEPT !.body = body],
             Catch(c.tool,
                   IF c.pc = "errorText" THEN AfterErrorText(key, c.fetched.response, body)
                   ELSE IF c.pc = "json" THEN AfterJson(body)
                   ELSE AfterText(c.tool, c.args, body)))

----------------------------------------------------------------------------
(* Actions *)

\* mutant of CallTool: the key is read from the environment at each call
CallTool_readsEnv(i, tool, raw) ==
    /\ proc.state = "running"
    /\ inv[i].pc = "idle"
    /\ inv' = [inv EXCEPT ![i] = Dispatch(tool, raw, proc.env)]
    /\ UNCHANGED <<API_KEY, proc, http>>

\* mutant of CallTool: the result of an earlier call with the same
\* arguments is kept and returned without a request
CallTool_cached(i, tool, raw) ==
    /\ proc.state = "running"
    /\ inv[i].pc = "idle"
    /\ inv' = [inv EXCEPT ![i] =
                  IF \E j \in DOMAIN inv : inv[j].pc = "done" /\ inv[j].tool = tool
                                               /\ inv[j].raw = raw
                  THEN [inv[CHOOSE j \in DOMAIN inv : inv[j].pc = "done" /\ inv[j].tool = tool
                                                       /\ inv[j].raw = raw]
                            EXCEPT !.fetches = 0, !.request = NoRequest]
                  ELSE Dispatch(tool, raw, API_KEY)]
    /\ UNCHANGED <<API_KEY, proc, http>>

\* a client calls a tool
CallTool(i, tool, raw) ==
    /\ proc.state = "running"
    /\ inv[i].pc = "idle"
    /\ inv' = [inv EXCEPT ![i] = Dispatch(tool, raw, API_KEY)]
    /\ UNCHANGED <<API_KEY, proc, http>>

\* the upstream answers the request, or the request fails
FetchSettles(i, outcome) ==
    /\ proc.state = "running"
    /\ inv[i].pc = "fetch"
    /\ inv' = [inv EXCEPT ![i] = ResumeFetch(inv[i], API_KEY, outcome)]
    /\ UNCHANGED <<API_KEY, proc, http>>

\* mutant of BodySettles: the result is kept in a variable that all the
\* invocations share, and the one another invocation left there is returned
BodySettles_sharedResult(i, body) ==
    /\ proc.state = "running"
    /\ inv[i].pc \in BodyWaits
    /\ inv' = [inv EXCEPT ![i] =
                  [ResumeBody(inv[i], API_KEY, body) EXCEPT !.result =
                      IF \E j \in DOMAIN inv : j # i /\ inv[j].pc = "done"
                      THEN inv[CHOOSE j \in DOMAIN inv : j # i /\ inv[j].pc = "done"].result
                      ELSE @]]
    /\ UNCHANGED <<API_KEY, proc, http>>

\* the body of the response arrives, or reading it fails
BodySettles(i, body) ==
    /\ proc.state = "running"
    /\ inv[i].pc \in BodyWaits
    /\ inv' = [inv EXCEPT ![i] = ResumeBody(inv[i], API_KEY, body)]
    /\ UNCHANGED <<API_KEY, proc, http>>

\* the result is delivered to the client
Deliver(i) ==
    /\ proc.state = "running"
    /\ inv[i].pc = "done"
    /\ inv' = [inv EXCEPT ![i] = Idle]
    /\ UNCHANGED <<API_KEY, proc, http>>

\* the module is loaded: API_KEY = process.env.USPTO_API_KEY
Init ==
    /\ API_KEY \in Keys
    /\ inv = <<Idle>>
    /\ proc = Started(API_KEY)
    /\ http = NoHttp

Next ==
    \E i \in DOMAIN inv :
        \/ \E tool \in Tools : \E raw \in RawArgs(tool) : CallTool(i, tool, raw)
        \/ \E outcome \in FetchOutcomes : FetchSettles(i, outcome)
        \/ \E body \in BodyOutcomes : BodySettles(i, body)
        \/ Deliver(i)

Spec == Init /\ [][Next]_vars

----------------------------------------------------------------------------
(* Two invocations in flight at the same time *)

\* the calls, the answers and the bodies tried with two invocations
ConcTools == {TOOL_SERIAL, TOOL_STATUS}
ConcArgs(tool) ==
    IF tool = TOOL_SERIAL
    THEN [serialNumber : {Repeat("7", 8), Repeat("X", 8)}, format : {<<>>, <<"xml">>}]
    ELSE [serialNumber : {Repeat("7", 8), Repeat("X", 8)}, format : {<<>>}]
ConcFetchOutcomes ==
    {o \in FetchOutcomes :
        \/ o.kind = "reject" /\ o.message = <<"fetch failed">>
        \/ o.kind = "response" /\ o.response.status \in {200, 404}}
ConcBodyOutcomes ==
    {b \in BodyOutcomes :
        b.kind = "text"
        /\ b.text \in {<<"0">>, <<"Not Found">>,
                       <<"<HTML>", "<TITLE>", "TEST MARK", "</TITLE>", "</HTML>">>}}

InitConc ==
    /\ API_KEY = Str(KeyOf(MaxKeyLen))
    /\ inv = <<Idle, Idle>>
    /\ proc = Started(API_KEY)
    /\ http = NoHttp

NextConc ==
    \E i \in DOMAIN inv :
        \/ \E tool \in ConcTools : \E raw \in ConcArgs(tool) : CallTool(i, tool, raw)
        \/ \E outcome \in ConcFetchOutcomes : FetchSettles(i, outcome)
        \/ \E body \in ConcBodyOutcomes : BodySettles(i, body)
        \/ Deliver(i)

SpecConc == InitConc /\ [][NextConc]_vars

----------------------------------------------------------------------------
(* The stdio entry point, bin.ts *)

\* the process receives SIGINT or SIGTERM and its handler runs
Signal(signal) ==
    /\ proc.state = "running"
    /\ proc' = OnSignal(proc, signal)
    /\ UNCHANGED <<API_KEY, inv, http>>

InitBin ==
    /\ API_KEY \in {Undefined, Str(KeyOf(MaxKeyLen))}
    /\ inv = <<Idle>>
    /\ proc = Started(API_KEY)
    /\ http = NoHttp

NextBin ==
    \/ \E i \in DOMAIN inv :
           \/ \E tool \in ConcTools : \E raw \in ConcArgs(tool) : CallTool(i, tool, raw)
           \/ \E outcome \in ConcFetchOutcomes : FetchSettles(i, outcome)
           \/ \E body \in ConcBodyOutcomes : BodySettles(i, body)
           \/ Deliver(i)
    \/ \E signal \in {"SIGINT", "SIGTERM"} : Signal(signal)

SpecBin == InitBin /\ [][NextBin]_vars

----------------------------------------------------------------------------
(* The HTTP entry point, server.ts *)

\* a request arrives and the handler runs up to its first await
HttpRequest(method, path, query) ==
    /\ proc.state = "running"
    /\ http.req.pc \in {"idle", "done"}
    /\ http' = [http EXCEPT
                   !.req = HandleRequest(method, path, query, http.clock),
                   !.lastHealth = IF http.req.path = "/health" /\ http.req.method # "OPTIONS"
                                  THEN http.req.res.chunks[1] ELSE @]
    /\ UNCHANGED <<API_KEY, inv, proc>>

\* getRequestBody settles
RequestBodySettles(outcome) ==
    /\ proc.state = "running"
    /\ http.req.pc = "readBody"
    /\ http' = [http EXCEPT !.req = AfterRequestBody(@, outcome)]
    /\ UNCHANGED <<API_KEY, inv, proc>>

\* the fetch to the internal MCP server settles; it is answered only when
\* that server listens
ProxyFetchSettles(outcome) ==
    /\ proc.state = "running"
    /\ http.req.pc = "proxyFetch"
    /\ outcome.kind = "response" => http.mcpUp
    /\ http' = [http EXCEPT !.req = AfterProxyFetch(@, outcome)]
    /\ UNCHANGED <<API_KEY, inv, proc>>

\* reader.read() settles
ReadSettles(outcome) ==
    /\ proc.state = "running"
    /\ http.req.pc = "pump"
    /\ outcome = "chunk" => http.req.stream # <<>>
    /\ outcome = "done" => http.req.stream = <<>>
    /\ http' = [http EXCEPT !.req = AfterRead(@, outcome)]
    /\ UNCHANGED <<API_KEY, inv, proc>>

\* server.start: the internal MCP server listens on port + 1
McpListens ==
    /\ proc.state = "running"
    /\ ~http.mcpUp
    /\ http' = [http EXCEPT !.mcpUp = TRUE, !.mcpPort = port + 1]
    /\ UNCHANGED <<API_KEY, inv, proc>>

\* mutant of McpHealthRequest: the message is built for each request
McpHealthRequest_fresh ==
    /\ proc.state = "running"
    /\ http.mcpUp
    /\ http.health.enabled
    /\ http' = [http EXCEPT !.mcpHealth =
                   [status |-> http.health.status, body |-> HealthDocument(http.clock)]]
    /\ UNCHANGED <<API_KEY, inv, proc>>

\* a request to the health path of the internal MCP server is answered with
\* the status and the message of the health option
McpHealthRequest ==
    /\ proc.state = "running"
    /\ http.mcpUp
    /\ http.health.enabled
    /\ http' = [http EXCEPT !.mcpHealth =
                   [status |-> http.health.status, body |-> http.health.message]]
    /\ UNCHANGED <<API_KEY, inv, proc>>

\* time passes
Tick ==
    /\ proc.state = "running"
    /\ http.clock < MaxClock
    /\ http' = [http EXCEPT !.clock = @ + 1]
    /\ UNCHANGED <<API_KEY, inv, proc>>

InitHttp ==
    /\ API_KEY = Str(KeyOf(MaxKeyLen))
    /\ inv = <<Idle>>
    /\ proc = Started(API_KEY)
    /\ http = NoHttp

NextHttp ==
    \/ \E method \in HttpMethods : \E path \in HttpPaths : \E query \in HttpQueries :
           HttpRequest(method, path, query)
    \/ \E outcome \in RequestBodyOutcomes : RequestBodySettles(outcome)
    \/ \E outcome \in ProxyOutcomes : ProxyFetchSettles(outcome)
    \/ \E outcome \in ReadOutcomes : ReadSettles(outcome)
    \/ McpListens
    \/ McpHealthRequest
    \/ Tick

SpecHttp == InitHttp /\ [][NextHttp]_vars

\* every promise the handler awaits settles: the request body ends or
\* fails, the fetch is answered or refused, the stream gives a chunk, ends
\* or fails
SpecHttpLive ==
    /\ SpecHttp
    /\ WF_vars(\E outcome \in RequestBodyOutcomes : RequestBodySettles(outcome))
    /\ WF_vars(\E outcome \in ProxyOutcomes : ProxyFetchSettles(outcome))
    /\ WF_vars(\E outcome \in ReadOutcomes : ReadSettles(outcome))

----------------------------------------------------------------------------
(* The environment changes while the server runs *)

\* process.env.USPTO_API_KEY is set or deleted after the module was loaded
SetEnv(value) ==
    /\ proc.state = "running"
    /\ proc.env # value
    /\ proc' = [proc EXCEPT !.env = value]
    /\ UNCHANGED <<API_KEY, inv, http>>

\* the values of USPTO_API_KEY tried: none, the empty string, a key of 8
\* characters and the longest key
EnvKeys == {Undefined, Str(<<>>), Str(KeyOf(MaxKeyLen - 1)), Str(KeyOf(MaxKeyLen))}

\* the calls and the answers tried while the environment changes
EnvTools == {TOOL_STATUS, TOOL_IMAGE, TOOL_DOCUMENTS}
EnvArgs == [serialNumber : {Repeat("7", 8)}, format : {<<>>}]
EnvFetchOutcomes ==
    {o \in FetchOutcomes :
        \/ o.kind = "reject" /\ o.message = <<"fetch failed">>
        \/ o.kind = "response" /\ o.response.status \in {200, 401}}
EnvBodyOutcomes ==
    {b \in BodyOutcomes :
        b.kind = "text"
        /\ b.text \in {<<"You ", API_KEY_MARKER, " at developer.uspto.gov">>,
                       <<"<HTML>", "<TITLE>", "TEST MARK", "</TITLE>", "</HTML>">>}}

InitEnv ==
    /\ API_KEY \in EnvKeys
    /\ inv = <<Idle>>
    /\ proc = Started(API_KEY)
    /\ http = NoHttp

NextEnv ==
    \/ \E i \in DOMAIN inv :
           \/ \E tool \in EnvTools : \E raw \in EnvArgs : CallTool(i, tool, raw)
           \/ \E outcome \in EnvFetchOutcomes : FetchSettles(i, outcome)
           \/ \E body \in EnvBodyOutcomes : BodySettles(i, body)
           \/ Deliver(i)
    \/ \E value \in EnvKeys : SetEnv(value)
    \/ \E method \in {"GET", "OPTIONS"} : HttpRequest(method, "/health", "")

SpecEnv == InitEnv /\ [][NextEnv]_vars

----------------------------------------------------------------------------
(* Properties *)

\* invocation i has ended
Done(i) == inv[i].pc = "done"

\* invocation i has ended and its execute handler ran
Executed(i) == Done(i) /\ inv[i].outcome # "validation"

\* invocation i got a response that is not 2xx
NotOkResponse(i) ==
    /\ inv[i].fetched.kind = "response"
    /\ (inv[i].fetched.response.status < 200 \/ inv[i].fetched.response.status > 299)

\* invocation i got a 2xx response
OkResponse(i) ==
    /\ inv[i].fetched.kind = "response"
    /\ inv[i].fetched.response.status >= 200
    /\ inv[i].fetched.response.status <= 299

\* invocation i read the body of its response, and the body has the marker
MarkerBody(i) ==
    inv[i].body.kind = "text" /\ Includes(inv[i].body.text, <<API_KEY_MARKER>>)

\* C1: whatever the upstream does (fetch rejected, response not 2xx, body
\* read failed, malformed JSON in a 2xx body), a handler that ran ends by
\* returning a text and never by throwing; the text contains the message of
\* the exception that was thrown on the way.
C1_HandlerNeverThrows ==
    \A i \in DOMAIN inv :
        Executed(i) =>
            /\ inv[i].outcome = "returned"
            /\ inv[i].fetched.kind = "reject" => Includes(inv[i].result, inv[i].fetched.message)
            /\ inv[i].body.kind = "reject" => Includes(inv[i].result, inv[i].body.message)
            /\ ( /\ OkResponse(i)
                 /\ inv[i].tool \in FormatTools
                 /\ inv[i].args.format = "json"
                 /\ inv[i].body.kind = "text"
                 /\ ~JSONParse(inv[i].body.text).ok )
               => Includes(inv[i].result, JSON_SYNTAX_ERROR)
            /\ (NotOkResponse(i) /\ inv[i].tool # TOOL_IMAGE /\ inv[i].body.kind = "text")
               => IF MarkerBody(i)
                  THEN Includes(inv[i].result, <<"**Your API Key**: ">>)
                  ELSE Includes(inv[i].result, <<"USPTO API returned ">>)

\* C1 witness: a 2xx response with a malformed JSON body ended in a result
C1_Witness ==
    \E i \in DOMAIN inv :
        /\ Executed(i)
        /\ OkResponse(i)
        /\ inv[i].tool = TOOL_REGISTRATION
        /\ inv[i].args.format = "json"
        /\ inv[i].body.kind = "text"
        /\ ~JSONParse(inv[i].body.text).ok
        /\ inv[i].outcome = "returned"

\* C2 as stated: without a key, every call of every tool ends with the
\* configuration message and without a network call.
C2_Original ==
    ~Truthy(API_KEY) =>
        \A i \in DOMAIN inv :
            /\ inv[i].fetches = 0
            /\ Done(i) => inv[i].result = CONFIG_ERROR

\* C2 amended: without a key no call performs a network call, and every
\* call whose arguments satisfy the tool's parameters returns the one fixed
\* configuration message (trademark_documents included), each time it is made.
C2_NoKeyConfigMessage ==
    ~Truthy(API_KEY) =>
        \A i \in DOMAIN inv :
            /\ inv[i].fetches = 0
            /\ inv[i].request = NoRequest
            /\ inv[i].pc \in {"idle", "done"}
            /\ Executed(i) => inv[i].outcome = "returned" /\ inv[i].result = CONFIG_ERROR
            /\ (inv[i].pc = "done" /\ Issues(inv[i].tool, inv[i].raw) = {}) => Executed(i)

\* C2 witness: trademark_documents was called with a valid serial number
\* while the key is the empty string
C2_Witness ==
    \E i \in DOMAIN inv :
        /\ API_KEY = Str(<<>>)
        /\ Executed(i)
        /\ inv[i].tool = TOOL_DOCUMENTS
        /\ Len(inv[i].raw.serialNumber) = 8
        /\ inv[i].result = CONFIG_ERROR

\* C3: a call of a serial-taking tool with a serial number whose length is
\* not 8 ends at once in a validation failure that names the field, and no
\* request is issued for it.
C3_SerialLengthValidated ==
    \A i \in DOMAIN inv :
        (inv[i].tool \in SerialTools /\ Len(inv[i].raw.serialNumber) # 8) =>
            /\ inv[i].pc = "done"
            /\ inv[i].outcome = "validation"
            /\ Includes(inv[i].result, <<"serialNumber">>)
            /\ inv[i].fetches = 0
            /\ inv[i].request = NoRequest

\* C3 witness: with a key configured, trademark_image was called with a
\* serial number of 9 characters
C3_Witness ==
    \E i \in DOMAIN inv :
        /\ Truthy(API_KEY)
        /\ inv[i].tool = TOOL_IMAGE
        /\ Len(inv[i].raw.serialNumber) = 9
        /\ inv[i].outcome = "validation"

\* C4: trademark_search_by_registration rejects a registration number whose
\* length is not 7 or 8 with a validation failure and without a request; a
\* registration number of length 7 or 8 is never what a validation failure
\* names, and with a valid format the handler runs.
C4_RegistrationLengthValidated ==
    \A i \in DOMAIN inv :
        inv[i].tool = TOOL_REGISTRATION =>
            /\ Len(inv[i].raw.registrationNumber) \notin {7, 8} =>
                   /\ inv[i].pc = "done"
                   /\ inv[i].outcome = "validation"
                   /\ Includes(inv[i].result, <<"registrationNumber">>)
                   /\ inv[i].fetches = 0
                   /\ inv[i].request = NoRequest
            /\ Len(inv[i].raw.registrationNumber) \in {7, 8} =>
                   /\ ~Includes(inv[i].result, <<"registrationNumber">>)
                   /\ inv[i].raw.format \in {<<>>, <<"json">>, <<"xml">>}
                          => inv[i].outcome # "validation"

\* C4 witness: a registration number of 7 characters was accepted and its
\* request issued
C4_Witness ==
    \E i \in DOMAIN inv :
        /\ inv[i].tool = TOOL_REGISTRATION
        /\ Len(inv[i].raw.registrationNumber) = 7
        /\ inv[i].pc = "fetch"
        /\ inv[i].fetches = 1

\* C5: an invocation issues at most one request, also after the request
\* failed or was answered with an error, and trademark_documents issues none.
C5_AtMostOneFetch ==
    \A i \in DOMAIN inv :
        /\ inv[i].fetches <= 1
        /\ inv[i].tool = TOOL_DOCUMENTS => inv[i].fetches = 0 /\ inv[i].request = NoRequest
        /\ (inv[i].fetched.kind # "none") => inv[i].pc # "fetch"

\* C5 witness: an invocation ended after its only request was rejected
C5_Witness ==
    \E i \in DOMAIN inv :
        /\ Done(i)
        /\ inv[i].fetched.kind = "reject"
        /\ inv[i].fetches = 1

\* C6: when trademark_search_by_serial, trademark_search_by_registration or
\* trademark_status gets a response that is not 2xx and whose body contains
\* the API-key marker, the result holds the first 8 characters of the key
\* followed by "..." and the support address.
C6_AuthenticationMessage ==
    \A i \in DOMAIN inv :
        (Done(i) /\ inv[i].tool \in InfoTools /\ NotOkResponse(i) /\ MarkerBody(i)) =>
            /\ inv[i].outcome = "returned"
            /\ Includes(inv[i].result,
                        <<"**Your API Key**: ">>
                        \o [j \in 1..Min(8, Len(API_KEY.value)) |-> API_KEY.value[j]]
                        \o <<"...">>)
            /\ Includes(inv[i].result, <<"APIhelp@uspto.gov">>)

\* C6 witness: trademark_status got a 401 with the marker in its body while
\* a key longer than 8 characters is configured
C6_Witness ==
    \E i \in DOMAIN inv :
        /\ Done(i)
        /\ inv[i].tool = TOOL_STATUS
        /\ inv[i].fetched.kind = "response"
        /\ inv[i].fetched.response.status = 401
        /\ MarkerBody(i)
        /\ Len(API_KEY.value) > 8
        /\ Includes(inv[i].result, <<"APIhelp@uspto.gov">>)

\* C7: whatever key is configured, no result of a tool contains the whole
\* key.
C7_ResultNeverHoldsWholeKey ==
    \A i \in DOMAIN inv :
        (Done(i) /\ Truthy(API_KEY)) => ~Includes(inv[i].result, API_KEY.value)

\* C8: when trademark_search_by_serial, trademark_search_by_registration or
\* trademark_status gets a response that is not 2xx and whose body does not
\* contain the API-key marker, the result contains "USPTO API returned
\* {status}: {statusText}. Error: {body}" with the values of that response.
C8_GenericErrorMessage ==
    \A i \in DOMAIN inv :
        ( /\ Done(i)
          /\ inv[i].tool \in InfoTools
          /\ NotOkResponse(i)
          /\ inv[i].body.kind = "text"
          /\ ~MarkerBody(i) ) =>
            /\ inv[i].outcome = "returned"
            /\ Includes(inv[i].result,
                        <<"USPTO API returned ", ToString(inv[i].fetched.response.status),
                          ": ", inv[i].fetched.response.statusText, ". Error: ">>
                        \o inv[i].body.text)

\* C8 witness: trademark_search_by_serial got a 304 with a body that spells
\* the marker in another case
C8_Witness ==
    \E i \in DOMAIN inv :
        /\ Done(i)
        /\ inv[i].tool = TOOL_SERIAL
        /\ inv[i].fetched.kind = "response"
        /\ inv[i].fetched.response.status = 304
        /\ inv[i].body.kind = "text"
        /\ inv[i].body.text = <<"You ", "Need To Register For An API Key">>
        /\ Includes(inv[i].result, <<"USPTO API returned ", "304">>)

\* C9: trademark_image issues one HEAD request, never reads the body of its
\* response, and answers every response that is not 2xx with the "No image
\* found" text for the serial number: neither an error text nor the
\* authentication message.
C9_ImageProbe ==
    \A i \in DOMAIN inv :
        inv[i].tool = TOOL_IMAGE =>
            /\ inv[i].bodyReads = 0
            /\ inv[i].body.kind = "none"
            /\ inv[i].fetches <= 1
            /\ inv[i].fetches = 1 => inv[i].request.method = "HEAD"
            /\ NotOkResponse(i) =>
                   /\ Done(i)
                   /\ inv[i].outcome = "returned"
                   /\ inv[i].result =
                          <<"No image found for trademark serial number: ">>
                          \o inv[i].raw.serialNumber
                   /\ ~Includes(inv[i].result, <<"Error retrieving trademark image: ">>)
                   /\ ~Includes(inv[i].result, <<"APIhelp@uspto.gov">>)

\* C9 witness: the probe of trademark_image was answered with 401
C9_Witness ==
    \E i \in DOMAIN inv :
        /\ Done(i)
        /\ inv[i].tool = TOOL_IMAGE
        /\ inv[i].fetched.kind = "response"
        /\ inv[i].fetched.response.status = 401
        /\ inv[i].fetches = 1

\* C10: for a 2xx response with a JSON body, the result of
\* trademark_search_by_serial and trademark_search_by_registration with
\* format json parses to the structure the body parses to, and is in the
\* stable format: serializing its structure again gives the same text.
C10_JsonRoundTrip ==
    \A i \in DOMAIN inv :
        ( /\ Executed(i)
          /\ inv[i].tool \in FormatTools
          /\ inv[i].args.format = "json"
          /\ OkResponse(i)
          /\ inv[i].body.kind = "text"
          /\ JSONParse(inv[i].body.text).ok ) =>
            /\ inv[i].outcome = "returned"
            /\ JSONParse(inv[i].result).ok
            /\ JSONParse(inv[i].result).value = JSONParse(inv[i].body.text).value
            /\ JSONStringify(JSONParse(inv[i].result).value) = inv[i].result

\* C10 witness: a body with a repeated key, other spellings of its numbers
\* and other white space was returned in another text
C10_Witness ==
    \E i \in DOMAIN inv :
        /\ Done(i)
        /\ inv[i].tool = TOOL_SERIAL
        /\ inv[i].raw.format = <<>>
        /\ OkResponse(i)
        /\ inv[i].body.kind = "text"
        /\ JSONParse(inv[i].body.text).ok
        /\ Includes(inv[i].body.text, <<"1.0">>)
        /\ inv[i].result # inv[i].body.text
        /\ JSONParse(inv[i].result).ok

\* C11: with format xml and a 2xx response, trademark_search_by_serial and
\* trademark_search_by_registration return the text of the body as it came.
C11_XmlUnchanged ==
    \A i \in DOMAIN inv :
        ( /\ Executed(i)
          /\ inv[i].tool \in FormatTools
          /\ inv[i].raw.format = <<"xml">>
          /\ OkResponse(i)
          /\ inv[i].body.kind = "text" ) =>
            /\ inv[i].outcome = "returned"
            /\ inv[i].result = inv[i].body.text

\* C11 witness: an XML document with line breaks and indentation was
\* returned by trademark_search_by_registration
C11_Witness ==
    \E i \in DOMAIN inv :
        /\ Executed(i)
        /\ inv[i].tool = TOOL_REGISTRATION
        /\ inv[i].raw.format = <<"xml">>
        /\ OkResponse(i)
        /\ inv[i].body.kind = "text"
        /\ Includes(inv[i].body.text, <<"\n", "<TrademarkTransaction>", "\n", "  ">>)
        /\ inv[i].result = inv[i].body.text

\* the url of the image of invocation i, written out
ImageUrlOf(i) ==
    <<"https://tsdrapi.uspto.gov/ts/cd", "/rawImage/">> \o inv[i].raw.serialNumber

\* the url of the document bundle of invocation i, written out
BundleUrlOf(i) ==
    <<"https://tsdrapi.uspto.gov/ts/cd", "/casedocs/bundle.pdf?sn=">>
    \o inv[i].raw.serialNumber

\* C12 as stated: after a 2xx answer to the probe, the result of
\* trademark_image is the url {base}/rawImage/{serial}.
C12_Original ==
    \A i \in DOMAIN inv :
        (Executed(i) /\ inv[i].tool = TOOL_IMAGE /\ OkResponse(i)) =>
            inv[i].result = ImageUrlOf(i)

\* C12 amended: after a 2xx answer to the probe, the result of
\* trademark_image is a sentence that holds the url {base}/rawImage/{serial}
\* (the serial as given) between a label and a viewing hint, and that url
\* is the one that was probed.
C12_ImageUrlInResult ==
    \A i \in DOMAIN inv :
        (Executed(i) /\ inv[i].tool = TOOL_IMAGE /\ OkResponse(i)) =>
            /\ inv[i].outcome = "returned"
            /\ inv[i].result =
                   <<"Trademark image URL for serial number ">>
                   \o inv[i].raw.serialNumber \o <<": ">> \o ImageUrlOf(i)
                   \o <<"\n\nYou can view this image by opening the URL in a web browser.">>
            /\ inv[i].request.url = ImageUrlOf(i)

\* C12 witness: the probe for a serial number of letters was answered 299
C12_Witness ==
    \E i \in DOMAIN inv :
        /\ Executed(i)
        /\ inv[i].tool = TOOL_IMAGE
        /\ inv[i].fetched.kind = "response"
        /\ inv[i].fetched.response.status = 299
        /\ inv[i].raw.serialNumber = Repeat("X", 8)
        /\ Includes(inv[i].result, ImageUrlOf(i))

\* C13 as stated: for a valid serial number trademark_documents returns the
\* url {base}/casedocs/bundle.pdf?sn={serial} and issues no request.
C13_Original ==
    \A i \in DOMAIN inv :
        (Executed(i) /\ inv[i].tool = TOOL_DOCUMENTS /\ Truthy(API_KEY)) =>
            /\ inv[i].result = BundleUrlOf(i)
            /\ inv[i].fetches = 0

\* C13 amended: for a valid serial number and with a key configured,
\* trademark_documents returns a sentence that holds the url
\* {base}/casedocs/bundle.pdf?sn={serial} between a label and a note, and
\* it issues no request at any point.
C13_BundleUrlInResult ==
    \A i \in DOMAIN inv :
        inv[i].tool = TOOL_DOCUMENTS =>
            /\ inv[i].fetches = 0
            /\ inv[i].request = NoRequest
            /\ inv[i].pc = "done"
            /\ (Executed(i) /\ Truthy(API_KEY)) =>
                   /\ inv[i].outcome = "returned"
                   /\ inv[i].result =
                          <<"Document bundle URL for trademark serial number ">>
                          \o inv[i].raw.serialNumber \o <<": ">> \o BundleUrlOf(i)
                          \o <<"\n\nThis URL provides a PDF containing all documents related to this trademark application.\n\nNote: Document downloads are rate-limited to 4 requests per minute per API key.">>

\* C13 witness: trademark_documents was called with a serial number of 8
\* digits while a key is configured
C13_Witness ==
    \E i \in DOMAIN inv :
        /\ Executed(i)
        /\ Truthy(API_KEY)
        /\ inv[i].tool = TOOL_DOCUMENTS
        /\ inv[i].raw.serialNumber = Repeat("7", 8)
        /\ Includes(inv[i].result, BundleUrlOf(i))

\* the values the header map of invocation i's request has under a name
HeaderValues(i, name) == {h[2] : h \in {g \in inv[i].request.headers : g[1] = name}}

\* C18: every request that is issued, GET or HEAD, carries the User-Agent
\* trademark-mcp-server/1.0.0; the header map getHeaders builds has the
\* USPTO-API-KEY header, with the key as its value, when a key is
\* configured, and has no such header when none is.
C18_RequestHeaders ==
    /\ \A i \in DOMAIN inv :
           inv[i].fetches >= 1 =>
               /\ inv[i].request.method \in {"GET", "HEAD"}
               /\ HeaderValues(i, "User-Agent") = {<<"trademark-mcp-server/1.0.0">>}
               /\ inv[i].request.headers = getHeaders(API_KEY)
    /\ {h[2] : h \in {g \in getHeaders(API_KEY) : g[1] = "User-Agent"}}
           = {<<"trademark-mcp-server/1.0.0">>}
    /\ {h[2] : h \in {g \in getHeaders(API_KEY) : g[1] = "USPTO-API-KEY"}}
           = IF API_KEY.defined /\ Len(API_KEY.value) > 0 THEN {API_KEY.value} ELSE {}

\* C18 witness: the HEAD request of trademark_image is in flight with the
\* key in its header
C18_Witness ==
    \E i \in DOMAIN inv :
        /\ inv[i].pc = "fetch"
        /\ inv[i].request.method = "HEAD"
        /\ HeaderValues(i, "USPTO-API-KEY") = {API_KEY.value}
        /\ Len(API_KEY.value) = MaxKeyLen

\* C20: the arguments are validated first, then the key is checked, then
\* at most one request is issued: a request is issued only for valid
\* arguments and with a key; invalid arguments end in the validation
\* failure whether or not there is a key; valid arguments without a key end
\* in the configuration message.
C20_ValidationThenKeyThenFetch ==
    \A i \in DOMAIN inv :
        inv[i].pc # "idle" =>
            /\ inv[i].fetches <= 1
            /\ inv[i].fetches = 1 =>
                   /\ Issues(inv[i].tool, inv[i].raw) = {}
                   /\ API_KEY.defined /\ API_KEY.value # <<>>
            /\ Issues(inv[i].tool, inv[i].raw) # {} =>
                   /\ inv[i].pc = "done"
                   /\ inv[i].outcome = "validation"
                   /\ inv[i].result # CONFIG_ERROR
                   /\ Includes(inv[i].result, <<"' parameter validation failed: ">>)
            /\ (Issues(inv[i].tool, inv[i].raw) = {} /\ ~Truthy(API_KEY)) =>
                   /\ inv[i].pc = "done"
                   /\ inv[i].outcome = "returned"
                   /\ inv[i].result = CONFIG_ERROR

\* C20 witness: without a key, trademark_status was called with a serial
\* number of 7 characters and ended in the validation failure
C20_Witness ==
    \E i \in DOMAIN inv :
        /\ ~Truthy(API_KEY)
        /\ inv[i].tool = TOOL_STATUS
        /\ Len(inv[i].raw.serialNumber) = 7
        /\ inv[i].outcome = "validation"
        /\ inv[i].fetches = 0

\* the invocation c as it ends when it runs alone with the arguments, the
\* fetch outcome and the body that c itself got
Alone(c, key) ==
    LET c0 == Dispatch(c.tool, c.raw, key) IN
    IF c0.pc = "done" THEN c0
    ELSE LET c1 == ResumeFetch(c0, key, c.fetched) IN
         IF c1.pc = "done" THEN c1 ELSE ResumeBody(c1, key, c.body)

\* C14: with two invocations in flight whose answers arrive in any order,
\* each ends as it would have ended alone with its own arguments and its
\* own answer; the url it requested and the report it returns carry its
\* own serial number, and an error text carries the status it was answered.
C14_NoCrossContamination ==
    \A i \in DOMAIN inv :
        /\ Done(i) => inv[i] = Alone(inv[i], API_KEY)
        /\ inv[i].fetches = 1 =>
               Includes(inv[i].request.url, <<"/casestatus/sn">> \o inv[i].raw.serialNumber)
        /\ (Done(i) /\ inv[i].tool = TOOL_STATUS /\ OkResponse(i)) =>
               Includes(inv[i].result,
                        <<"Trademark Status Report for Serial Number: ">>
                        \o inv[i].raw.serialNumber \o <<"\n\nTitle: ">>)
        /\ (Done(i) /\ inv[i].tool = TOOL_SERIAL /\ OkResponse(i)
               /\ inv[i].raw.format = <<"xml">>) => inv[i].result = inv[i].body.text
        /\ (Done(i) /\ NotOkResponse(i)) =>
               Includes(inv[i].result,
                        <<"USPTO API returned ", ToString(inv[i].fetched.response.status)>>)

\* C14 witness: two invocations with different tools and serial numbers
\* were in flight together; one was answered 404, the other 200 with a page
C14_Witness ==
    /\ Len(inv) = 2
    /\ Done(1) /\ Done(2)
    /\ inv[1].tool = TOOL_SERIAL /\ inv[2].tool = TOOL_STATUS
    /\ inv[1].raw.serialNumber # inv[2].raw.serialNumber
    /\ NotOkResponse(1) /\ OkResponse(2)
    /\ inv[1].result # inv[2].result

\* C19 as stated: once the process has exited on SIGINT or SIGTERM, its
\* exit code is 0 and it has written nothing.
C19_Original ==
    proc.state = "exited" => proc.exitCode = 0 /\ proc.stderr = <<>>

\* C19 amended: on SIGINT or SIGTERM the process writes one line,
\* "Received {signal}, shutting down gracefully...", to stderr and exits
\* with code 0 in the same step, whether or not an invocation is in flight;
\* the invocations are left as they are and nothing happens after the exit.
C19_SignalLogsAndExits ==
    [][ /\ proc.state = "running"
        /\ (proc'.state = "exited" =>
               /\ proc'.exitCode = 0
               /\ \E signal \in {"SIGINT", "SIGTERM"} :
                      proc'.stderr = Append(proc.stderr,
                          "Received " \o signal \o ", shutting down gracefully...")
               /\ Len(proc'.stderr) = 1
               /\ inv' = inv)
        /\ (proc'.state = "running" => proc'.stderr = proc.stderr) ]_vars

\* C19 witness: the process exited on SIGTERM while a request of an
\* invocation was in flight
C19_Witness ==
    /\ proc.state = "exited"
    /\ proc.exitCode = 0
    /\ proc.stderr = <<"Received SIGTERM, shutting down gracefully...">>
    /\ inv[1].pc = "fetch"

RECURSIVE Flatten(_)
\* the chunks of a body, one after the other
Flatten(chunks) == IF chunks = <<>> THEN <<>> ELSE Head(chunks) \o Flatten(Tail(chunks))

\* the handler of the request has run to its end
Answered == http.req.pc = "done"

\* the body the client of the request received
ResponseBody == Flatten(http.req.res.chunks)

\* the values the response has for a header
ResponseHeader(name) == {h[2] : h \in {g \in http.req.res.headers : g[1] = name}}

\* the response is 200 with the health document: a JSON object with the keys
\* status, timestamp, version and service whose status is "healthy"
HealthAnswer ==
    /\ http.req.res.status = 200
    /\ http.req.res.ended = 1
    /\ JSONParse(ResponseBody).ok
    /\ JSONParse(ResponseBody).value.t = "obj"
    /\ KeysOf(JSONParse(ResponseBody).value) = {"status", "timestamp", "version", "service"}
    /\ Member(JSONParse(ResponseBody).value, "status") = JStr("healthy")

NotFoundAnswer ==
    /\ http.req.res.status = 404
    /\ http.req.res.ended = 1
    /\ ResponseBody = <<"{", "\"error\"", ":", "\"Not found\"", "}">>

C17_AllowOriginAny ==
    http.req.res.status # 0 => ResponseHeader("access-control-allow-origin") = {"*"}

\* the request being handled is proxied: its path is /mcp and its method is
\* not OPTIONS
Proxied == http.req.path = "/mcp" /\ http.req.method # "OPTIONS"

\* C21: for every request to /mcp, once its handler has run to its end the
\* head of the response was written exactly once, the response was ended
\* exactly once and the handler's promise was not rejected.
C21_HeadOnceEndOnce ==
    (Answered /\ http.req.path = "/mcp") =>
        /\ http.req.res.headWrites = 1
        /\ http.req.res.ended = 1
        /\ ~http.req.rejected
        /\ ~http.req.res.threw

BadGatewayAnswer ==
    /\ http.req.res.status = 502
    /\ http.req.res.headWrites = 1
    /\ http.req.res.ended = 1
    /\ ~http.req.rejected
    /\ ResponseHeader("content-type") = {"application/json"}
    /\ JSONParse(ResponseBody).ok
    /\ Member(JSONParse(ResponseBody).value, "error") = JStr("Bad Gateway")
    /\ Member(JSONParse(ResponseBody).value, "message")
           = JStr("Unable to connect to MCP server")

C29_Preflight ==
    http.req.method = "OPTIONS" =>
        /\ Answered
        /\ http.req.res.status = 200
        /\ http.req.res.headWrites = 1
        /\ http.req.res.ended = 1
        /\ ResponseBody = <<>>
        /\ ResponseHeader("content-type") = {}
        /\ http.req.forward = NoForward
        /\ http.req.mcp = NoMcpResponse
        /\ http.req.body = <<>>

\* C29 witness: an OPTIONS request to /mcp was answered while the internal
\* MCP server was listening
C29_Witness ==
    /\ Answered
    /\ http.req.method = "OPTIONS"
    /\ http.req.path = "/mcp"
    /\ http.mcpUp
    /\ http.req.res.status = 200
    /\ http.req.res.chunks = <<>>

\* the time a health document carries as its timestamp
TimeOf(document) ==
    CHOOSE t \in 0..MaxClock :
        Member(JSONParse(document).value, "timestamp") = JStr(IsoString(t))

\* the handler of server.ts answered the request with a health document
HealthServed == http.req.path = "/health" /\ http.req.method # "OPTIONS"

Called(i) == inv[i].pc = "idle" /\ inv'[i].pc # "idle"

\* C24: each step of an invocation is a function of its own tool, arguments
\* and answers and of the key, whatever the other invocation did before or
\* does meanwhile: a call with valid arguments issues the request built
\* from its arguments, also when an invocation with the same arguments has
\* ended before, successfully or not, and its result is still there.
C24_NoCrossCallState ==
    [][ \A i \in DOMAIN inv :
          /\ Called(i) =>
                 /\ inv'[i] = Dispatch(inv'[i].tool, inv'[i].raw, API_KEY)
                 /\ Issues(inv'[i].tool, inv'[i].raw) = {} =>
                        /\ inv'[i].pc = "fetch"
                        /\ inv'[i].fetches = 1
                        /\ inv'[i].request
                               = RequestOf(inv'[i].tool,
                                           Parsed(inv'[i].tool, inv'[i].raw), API_KEY)
          /\ (inv[i].pc = "fetch" /\ inv'[i] # inv[i]) =>
                 inv'[i] = ResumeFetch(inv[i], API_KEY, inv'[i].fetched)
          /\ (inv[i].pc \in BodyWaits /\ inv'[i] # inv[i]) =>
                 inv'[i] = ResumeBody(inv[i], API_KEY, inv'[i].body)
          /\ (inv[i].pc = "done" /\ inv'[i] # inv[i]) => inv'[i] = Idle ]_vars

\* C24 witness: an invocation was answered 200 and has ended, its result
\* is still there, and the same request is in flight again for an
\* invocation with the same arguments
C24_Witness ==
    /\ Len(inv) = 2
    /\ Done(1)
    /\ OkResponse(1)
    /\ inv[2].pc = "fetch"
    /\ inv[2].fetches = 1
    /\ inv[2].tool = inv[1].tool
    /\ inv[2].raw = inv[1].raw
    /\ inv[2].request = inv[1].request

\* C25: the key the server uses is the value USPTO_API_KEY had when the
\* module was loaded, defined or not: no step (a call of a tool, an answer
\* of the upstream, a request to the HTTP transport, a change of the
\* environment) changes it, and the configuration check, the request
\* headers and the authentication message take it and not the value the
\* environment has now.
C25_KeyReadOnce ==
    /\ [][API_KEY' = API_KEY]_vars
    /\ [][\A i \in DOMAIN inv :
             Called(i) => inv'[i] = Dispatch(inv'[i].tool, inv'[i].raw, API_KEY)]_vars
    /\ [](\A i \in DOMAIN inv :
             /\ Executed(i) => (inv[i].result = CONFIG_ERROR <=> ~Truthy(API_KEY))
             /\ inv[i].fetches = 1 =>
                    /\ Truthy(API_KEY)
                    /\ inv[i].request.headers = getHeaders(API_KEY)
             /\ (Done(i) /\ inv[i].tool = TOOL_STATUS /\ NotOkResponse(i) /\ MarkerBody(i)) =>
                    Includes(inv[i].result, <<"**Your API Key**: ">> \o KeyShown(API_KEY)))

\* C25 witness: the module was loaded with the longest key, the variable
\* was deleted since, and an invocation ended with the authentication
\* message that shows the start of the loaded key
C25_Witness ==
    /\ API_KEY = Str(KeyOf(MaxKeyLen))
    /\ proc.env = Undefined
    /\ Done(1)
    /\ inv[1].tool = TOOL_STATUS
    /\ MarkerBody(1)
    /\ Includes(inv[1].result, KeyShown(API_KEY))
    /\ http.req.pc = "done"

\* the identifier given to a tool that takes a format
IdGiven(i) ==
    IF inv[i].tool = TOOL_REGISTRATION
    THEN inv[i].raw.registrationNumber ELSE inv[i].raw.serialNumber

\* C26: the request of trademark_search_by_serial is a GET of
\* {base}/casestatus/sn{serial}/info.{ext} and the one of
\* trademark_search_by_registration a GET of
\* {base}/casestatus/rn{reg}/info.{ext}; ext is json when format is "json"
\* or absent and xml when it is "xml"; the identifier is in the url as it
\* was given, and an identifier of an accepted length, digits or not, with
\* an accepted format is never rejected: with a key, its request is issued.
C26_InfoUrl ==
    \A i \in DOMAIN inv :
        inv[i].tool \in FormatTools =>
            /\ inv[i].fetches = 1 =>
                   /\ inv[i].request.method = "GET"
                   /\ inv[i].request.url =
                          <<"https://tsdrapi.uspto.gov/ts/cd",
                            IF inv[i].tool = TOOL_SERIAL
                            THEN "/casestatus/sn" ELSE "/casestatus/rn">>
                          \o IdGiven(i)
                          \o <<"/info.",
                               IF inv[i].raw.format = <<"xml">> THEN "xml" ELSE "json">>
                   /\ inv[i].raw.format \in {<<>>, <<"json">>, <<"xml">>}
            /\ ( /\ Len(IdGiven(i)) \in (IF inv[i].tool = TOOL_SERIAL THEN {8} ELSE {7, 8})
                 /\ inv[i].raw.format \in {<<>>, <<"json">>, <<"xml">>} ) =>
                   /\ inv[i].outcome # "validation"
                   /\ Truthy(API_KEY) => inv[i].fetches = 1

\* C26 witness: the request for a registration number of seven letters and
\* no format is in flight, and the one asked for is info.json
C26_Witness ==
    \E i \in DOMAIN inv :
        /\ inv[i].tool = TOOL_REGISTRATION
        /\ inv[i].raw.registrationNumber = Repeat("X", 7)
        /\ inv[i].raw.format = <<>>
        /\ inv[i].pc = "fetch"
        /\ Includes(inv[i].request.url,
                    <<"/casestatus/rn", "X", "X", "X", "X", "X", "X", "X", "/info.", "json">>)

\* the body has a title element: an opening tag and, after it, a closing tag
HasTitle(html) ==
    \E a, b \in 1..Len(html) : a < b /\ IsOpenTitle(html[a]) /\ IsCloseTitle(html[b])

\* the text of the first title element of the body
FirstTitle(html) ==
    LET a == CHOOSE x \in 1..Len(html) :
                 /\ IsOpenTitle(html[x])
                 /\ \A y \in 1..(x - 1) : ~IsOpenTitle(html[y])
        b == CHOOSE x \in (a + 1)..Len(html) :
                 /\ IsCloseTitle(html[x])
                 /\ \A y \in (a + 1)..(x - 1) : ~IsCloseTitle(html[y])
    IN  SubSeq(html, a + 1, b - 1)

\* C27: the request of trademark_status is a GET of
\* {base}/casestatus/sn{serial}/content; for a 2xx response the report has,
\* after "Title: ", the text of the first title element of the body, in
\* whatever case its tags are written, or "No title found" when the body
\* has no title element, and it has the link to the url that was requested.
C27_StatusReport ==
    \A i \in DOMAIN inv :
        inv[i].tool = TOOL_STATUS =>
            /\ inv[i].fetches = 1 =>
                   /\ inv[i].request.method = "GET"
                   /\ inv[i].request.url =
                          <<"https://tsdrapi.uspto.gov/ts/cd", "/casestatus/sn">>
                          \o inv[i].raw.serialNumber \o <<"/content">>
            /\ (Executed(i) /\ OkResponse(i) /\ inv[i].body.kind = "text") =>
                   /\ inv[i].outcome = "returned"
                   /\ Includes(inv[i].result,
                               <<"\n\nTitle: ">>
                               \o (IF HasTitle(inv[i].body.text)
                                   THEN FirstTitle(inv[i].body.text)
                                   ELSE <<"No title found">>)
                               \o <<"\n\nFull HTML content available at: ">>
                               \o inv[i].request.url)

\* C28: a request is issued only when a key is configured, and every
\* request that is issued, the HEAD of trademark_image included, has one
\* USPTO-API-KEY header whose value is the whole key; without a key no
\* invocation of any tool gets as far as a request.
C28_NoRequestWithoutKey ==
    \A i \in DOMAIN inv :
        /\ (inv[i].fetches >= 1 \/ inv[i].pc = "fetch" \/ inv[i].request # NoRequest) =>
               /\ API_KEY.defined
               /\ Len(API_KEY.value) >= 1
               /\ {h \in inv[i].request.headers : h[1] = "USPTO-API-KEY"}
                      = {<<"USPTO-API-KEY", API_KEY.value>>}
        /\ (~API_KEY.defined \/ API_KEY.value = <<>>) =>
               /\ inv[i].fetches = 0
               /\ inv[i].fetched = NoFetch
               /\ inv[i].pc \in {"idle", "done"}

\* C28 witness: the HEAD request of trademark_image is in flight with a key
\* of one character in its header
C28_Witness ==
    \E i \in DOMAIN inv :
        /\ inv[i].tool = TOOL_IMAGE
        /\ inv[i].pc = "fetch"
        /\ Len(API_KEY.value) = 1
        /\ <<"USPTO-API-KEY", API_KEY.value>> \in inv[i].request.headers

====
